---- MODULE Spec2Model ----
(***************************************************************************)
(* Conversation pipeline of the pharmacy AI sales agent                    *)
(* (src/src/services/AIAgentService.js): the per-customer conversation     *)
(* cache (this.conversations), the conversations and conversation_logs    *)
(* tables, and processMessage run by concurrent webhook/API requests on    *)
(* Node's single thread.  Every `await` of a database query or of a        *)
(* language-model call is a point where another request may run; the       *)
(* synchronous code between two such points is one action.  The calls of   *)
(* processMessage that touch neither the cache nor the two tables          *)
(* (analyzeMessage, executeActions, generateResponse) are computed by      *)
(* operators and run inside the action that ends with the synchronous      *)
(* part of updateConversationContext.                                      *)
(***************************************************************************)
EXTENDS Integers, Sequences, FiniteSets, TLC

\* ------------------------------------------------------------------ bounds
\* Number of processMessage calls started in one run: with overlapping
\* requests, and with one request at a time.
MaxTurns == 2
MaxSeqTurns == 2
\* Number of 15-minute timer intervals that elapse in one run.
MaxClock == 5
\* Number of applyPromotion calls started in one run: with overlapping calls,
\* and with one call at a time.
MaxApplies == 2
MaxSeqApplies == 2
\* Number of milliseconds that elapse in one run of the WhatsApp adapter.
MaxMillis == 1

\* ------------------------------------------------------- program constants
\* updateConversationContext keeps the last 10 messages.
HistoryLimit == 10
\* setInterval period of startCleanupTimer, in minutes (15 * 60 * 1000 ms).
CleanupIntervalMinutes == 15
\* Age after which the sweep drops a cache entry, in minutes (60 * 60 * 1000 ms).
MaxIdleMinutes == 60

\* Customers, request slots (concurrently running handlers) and channels.
Customers == {"c1", "c2"}
Procs == {"p1", "p2"}
Channels == {"web", "telegram"}

\* JavaScript's undefined and null, and the two empty JSON containers.
Undefined == "undefined"
Null == "null"
EmptyObject == "{}"
EmptyArray == "[]"

\* The intents the analysis prompt lists (AIAgentService.js line 108).
ValidIntents ==
  {"product_search", "price_negotiation", "prescription_refill",
   "general_inquiry", "complaint", "order_status"}

\* ----------------------------------------------------------------- messages
\* A text is a pair: its wording and the number of the processMessage call it
\* belongs to.  The user message of call n and the reply the language model
\* gives to it:
UserText(n) == <<"user text", n>>
ReplyText(n) == <<"reply text", n>>
UserMsg(n) == [role |-> "user", content |-> UserText(n)]
AssistantMsg(n) == [role |-> "assistant", content |-> ReplyText(n)]
TurnPair(n) == <<UserMsg(n), AssistantMsg(n)>>

\* History persisted by k earlier turns (numbered 1-k .. 0) of an earlier run
\* of the service: the table outlives the process, the cache does not.
RECURSIVE OldHistory(_)
OldHistory(k) == IF k = 0 THEN <<>> ELSE TurnPair(1 - k) \o OldHistory(k - 1)
\* Numbers of earlier turns a customer's row may hold when the service starts.
InitialTurns == {0, 4}

\* Array.prototype.slice(-n): the last n elements.
SliceLast(s, n) == IF Len(s) <= n THEN s ELSE SubSeq(s, Len(s) - n + 1, Len(s))

\* --------------------------------------------------------------- variables
VARIABLES
  conversations,      \* this.conversations: customer id -> cached context object
  conversationsTable, \* rows of table conversations (UNIQUE(customer_id))
  conversationLogs,   \* rows of table conversation_logs, in insertion order
  timerStarted,       \* startCleanupTimer() has been called
  now,                \* the clock, in minutes
  nextTurn,           \* number of the next processMessage call
  pc,                 \* per request: the await it is suspended at
  cust, channel, turn, \* per request: processMessage's arguments and call number
  conversation,       \* per request: what getConversationContext returned
  messageAnalysis,    \* per request: what analyzeMessage returned
  actionResults,      \* per request: what executeActions returned
  response,           \* per request: what generateResponse returned
  saveArgs,           \* per request: parameters of the upsert in flight
  result,             \* per request: what processMessage resolved with
  trace,              \* per request: what happened in this call (history variable)
  appended,           \* per customer: every message updateConversationContext
                      \* was asked to append, in call order (history variable)
  removed,            \* per customer: the entry the sweep removed, until the
                      \* customer's context is next loaded (history variable)
  touched,            \* per customer: when the cache entry was created or last
                      \* changed, in minutes (history variable)
  eligibility,        \* the last call of PromotionService.checkCustomerEligibility:
                      \* its arguments and what it returned
  promotionsTable,    \* rows of table promotions (UNIQUE(promotion_id))
  customersTable,     \* rows of table customers (UNIQUE(customer_id))
  nextApply,          \* number of the next applyPromotion call
  applyCall,          \* per applyPromotion call in progress: its arguments, the
                      \* await it is suspended at, its locals and its result
  client,             \* an HTTP client of the conversation routes: the request
                      \* it waits for and the responses it received
  composed,           \* the last call of AIAgentService.findApplicablePromotions:
                      \* its inputs and what it returned
  searched,           \* the last call of AIAgentService.searchProducts: its
                      \* inputs and what it returned
  botCall,            \* per WhatsApp message being handled: the await it is
                      \* suspended at, its locals and the customer id it used
  dateNow             \* Date.now(), in milliseconds

shared == <<conversations, conversationsTable, conversationLogs, timerStarted, now>>
locals == <<pc, cust, channel, turn, conversation, messageAnalysis, actionResults,
            response, saveArgs, result, trace>>
vars == <<conversations, conversationsTable, conversationLogs, timerStarted, now,
          nextTurn, pc, cust, channel, turn, conversation, messageAnalysis,
          actionResults, response, saveArgs, result, trace, appended, removed,
          touched, eligibility, promotionsTable, customersTable, nextApply,
          applyCall, client, composed, searched, botCall, dateNow>>
\* The state of the conversation pipeline and that of PromotionService.
pipelineVars ==
  <<conversations, conversationsTable, conversationLogs, timerStarted, now,
    nextTurn, pc, cust, channel, turn, conversation, messageAnalysis,
    actionResults, response, saveArgs, result, trace, appended, removed, touched>>
promotionVars == <<eligibility, promotionsTable, customersTable, nextApply, applyCall>>
\* The state of the conversation routes' client, of the action helpers
\* called on their own, and of the WhatsApp adapter.
channelVars == <<client, composed, searched, botCall, dateNow>>

\* A local of a request that holds nothing (yet).
None == [none |-> TRUE]
\* The time recorded for a customer without a cache entry.
NeverTouched == -1

\* Concurrently running applyPromotion calls.
ApplySlots == {"a1", "a2"}
\* An applyPromotion slot in which no call is running.
IdleCall == [pc |-> "idle"]
\* Nothing calls PromotionService: its tables are not read, no call runs.
NoPromotionActivity ==
  /\ eligibility = None
  /\ promotionsTable = {}
  /\ customersTable = {}
  /\ nextApply = 1
  /\ applyCall = [a \in ApplySlots |-> IdleCall]
\* Concurrently handled WhatsApp messages.
BotSlots == {"b1", "b2"}
\* No route is called, no helper is called on its own, no WhatsApp message
\* arrives.
NoChannelActivity ==
  /\ client = [pc |-> "idle"]
  /\ composed = None
  /\ searched = None
  /\ botCall = [b \in BotSlots |-> IdleCall]
  /\ dateNow = 0
\* What a request has recorded about itself before anything happened.
NoTrace ==
  [cacheHit |-> FALSE, loadFailed |-> FALSE, classification |-> "none",
   generation |-> "none", calls |-> <<>>, save |-> "none", log |-> "none",
   overlapped |-> FALSE, lookup |-> "none", customer |-> "none"]

\* A request between the start of processMessage and its return.
InFlight(p) == pc[p] \in {"loading", "respond", "saving", "logging"}
OthersInFlight(p, c) == \E q \in Procs \ {p} : InFlight(q) /\ cust[q] = c

\* ---------------------------------------------------------------- the table
\* JSON.stringify of the message array handed to the JSONB column, and what
\* the driver gives back for that column when the row is read.
JSONStringify(v) == [json |-> v]
JSONBParse(col) == col.json

\* A row of conversations as saveConversationContext's INSERT creates it:
\* last_intent is not among the inserted columns and has no default.
NewRow(c, messagesJson, contextJson) ==
  [customer_id |-> c, recent_messages |-> messagesJson,
   context_data |-> contextJson, last_intent |-> Null]
RowsOf(table, c) == {r \in table : r.customer_id = c}

InitPipeline ==
  /\ conversations = [c \in {} |-> None]
  /\ conversationsTable \in
       {{NewRow(c, JSONStringify(OldHistory(k[c])), JSONStringify(EmptyObject)) :
            c \in {x \in Customers : k[x] > 0}} : k \in [Customers -> InitialTurns]}
  /\ conversationLogs = <<>>
  /\ timerStarted = FALSE
  /\ now = 0
  /\ nextTurn = 1
  /\ pc = [p \in Procs |-> "idle"]
  /\ cust = [p \in Procs |-> "none"]
  /\ channel = [p \in Procs |-> "none"]
  /\ turn = [p \in Procs |-> 0]
  /\ conversation = [p \in Procs |-> None]
  /\ messageAnalysis = [p \in Procs |-> None]
  /\ actionResults = [p \in Procs |-> <<>>]
  /\ response = [p \in Procs |-> None]
  /\ saveArgs = [p \in Procs |-> None]
  /\ result = [p \in Procs |-> None]
  /\ trace = [p \in Procs |-> NoTrace]
  /\ appended = [c \in Customers |->
       LET rows == RowsOf(conversationsTable, c)
       IN IF rows = {} THEN <<>> ELSE JSONBParse((CHOOSE r \in rows : TRUE).recent_messages)]
  /\ removed = [c \in Customers |-> None]
  /\ touched = [c \in Customers |-> NeverTouched]
Init == InitPipeline /\ NoPromotionActivity /\ NoChannelActivity

\* Map.set and Map.delete on this.conversations.
MapSet(map, c, ctx) == [x \in DOMAIN map \cup {c} |-> IF x = c THEN ctx ELSE map[x]]
MapDelete(map, S) == [x \in DOMAIN map \ S |-> map[x]]
\* obj.field = value on a JavaScript object: adds the property when absent.
SetField(obj, f, v) == [x \in DOMAIN obj \cup {f} |-> IF x = f THEN v ELSE obj[x]]
\* obj.field: undefined when the property is absent.
GetField(obj, f) == IF f \in DOMAIN obj THEN obj[f] ELSE Undefined

\* ------------------------------------------------- getConversationContext
\* The object the driver returns for a row (SELECT *): JSONB columns parsed.
\* A row has no last_updated column.
RowObject(r) ==
  [customer_id |-> r.customer_id, recent_messages |-> JSONBParse(r.recent_messages),
   context_data |-> JSONBParse(r.context_data), last_intent |-> r.last_intent]
\* A load that ignores the row.
LoadedContextAlwaysNew(c, rows) ==
  [customer_id |-> c, recent_messages |-> <<>>, context_data |-> EmptyObject]

\* result.rows[0] || { customer_id, recent_messages: [], context_data: {}, ... }
LoadedContext(c, rows) ==
  IF rows # {} THEN RowObject(CHOOSE r \in rows : TRUE)
  ELSE [customer_id |-> c, recent_messages |-> <<>>, context_data |-> EmptyObject]
\* The catch branch: { customer_id, recent_messages: [], context_data: {} }.
ErrorContext(c) ==
  [customer_id |-> c, recent_messages |-> <<>>, context_data |-> EmptyObject]

\* processMessage is called (a webhook or API request arrives) and runs to its
\* first await: getConversationContext returns the cached object when the
\* map has one, and otherwise sends the SELECT.
Start(p, c, ch, limit) ==
  /\ pc[p] = "idle"
  /\ nextTurn <= limit
  /\ nextTurn' = nextTurn + 1
  /\ cust' = [cust EXCEPT ![p] = c]
  /\ channel' = [channel EXCEPT ![p] = ch]
  /\ turn' = [turn EXCEPT ![p] = nextTurn]
  /\ IF c \in DOMAIN conversations
       THEN /\ pc' = [pc EXCEPT ![p] = "respond"]
            /\ conversation' = [conversation EXCEPT ![p] = conversations[c]]
            /\ trace' = [q \in Procs |->
                 IF q = p THEN [NoTrace EXCEPT !.cacheHit = TRUE]
                 ELSE IF pc[q] = "saving" /\ cust[q] = c
                        THEN [trace[q] EXCEPT !.overlapped = TRUE] ELSE trace[q]]
       ELSE /\ pc' = [pc EXCEPT ![p] = "loading"]
            /\ conversation' = [conversation EXCEPT ![p] = None]
            /\ trace' = [q \in Procs |->
                 IF q = p THEN NoTrace
                 ELSE IF pc[q] = "saving" /\ cust[q] = c
                        THEN [trace[q] EXCEPT !.overlapped = TRUE] ELSE trace[q]]
  /\ UNCHANGED <<shared, messageAnalysis, actionResults, response, saveArgs,
                 result, appended, removed, touched, promotionVars, channelVars>>

\* The SELECT of getConversationContext returns.  With rows (ok): the first
\* row, or a new empty context, is put in the map and returned.  With an
\* error: the catch branch returns an empty context and leaves the map alone.
LoadContext(p, ok) ==
  /\ pc[p] = "loading"
  /\ pc' = [pc EXCEPT ![p] = "respond"]
  /\ IF ok
       THEN LET context == LoadedContext(cust[p], RowsOf(conversationsTable, cust[p]))
            IN /\ conversations' = MapSet(conversations, cust[p], context)
               /\ conversation' = [conversation EXCEPT ![p] = context]
               /\ trace' = trace
               /\ touched' = [touched EXCEPT ![cust[p]] = now]
       ELSE /\ conversations' = conversations
            /\ conversation' = [conversation EXCEPT ![p] = ErrorContext(cust[p])]
            /\ trace' = [trace EXCEPT ![p].loadFailed = TRUE]
            /\ touched' = touched
  /\ removed' = [removed EXCEPT ![cust[p]] = None]
  /\ UNCHANGED <<conversationsTable, conversationLogs, timerStarted, now, nextTurn,
                 cust, channel, turn, messageAnalysis, actionResults, response,
                 saveArgs, result, appended, promotionVars, channelVars>>

\* ----------------------------------------------------------- analyzeMessage
\* Confidence is kept in tenths: 0.5 is 5, and the range [0, 1] is 0 .. 10.
ConfidenceOne == 10
FallbackConfidence == 5

\* null, as JSON.parse gives it.
NullValue == [null |-> TRUE]
\* An analysis object the classification model may write.
AnalysisObject(i, conf) ==
  [intent |-> i, confidence |-> conf, entities |-> EmptyObject,
   sentiment |-> "neutral", urgency |-> "low"]
\* What the classification call can come back with: a rejected call, or
\* response.choices[0].message.content, which is text the program does not
\* control: text that is no JSON (or empty), the JSON text null (or a null
\* content), an object with a listed intent, an object with an intent that
\* is not listed, an object with a confidence above 1, an object without an
\* intent.
ClassifierContents ==
  {[text |-> "not json"], [text |-> "null"]}
    \cup {[text |-> "json", value |-> AnalysisObject(i, 9)] : i \in ValidIntents}
    \cup {[text |-> "json", value |-> AnalysisObject("greeting", 9)],
          [text |-> "json", value |-> AnalysisObject("product_search", 15)],
          [text |-> "json", value |-> [confidence |-> 9, entities |-> EmptyObject,
                                        sentiment |-> "neutral", urgency |-> "low"]]}
ClassifierReplies ==
  {[ok |-> FALSE]} \cup {[ok |-> TRUE, content |-> t] : t \in ClassifierContents}

\* JSON.parse throws on text that is no JSON.
JSONParseThrows(content) == content.text = "not json"
JSONParse(content) == IF content.text = "null" THEN NullValue ELSE content.value

\* The catch branch of analyzeMessage.
FallbackAnalysis ==
  [intent |-> "general_inquiry", confidence |-> FallbackConfidence,
   entities |-> EmptyArray, sentiment |-> "neutral", urgency |-> "low"]

analyzeMessage(reply) ==
  IF ~reply.ok \/ JSONParseThrows(reply.content)
    THEN FallbackAnalysis
    ELSE JSONParse(reply.content)

\* ----------------------------------------------------------- executeActions
\* The action pushed for an intent by the switch, if any.
IntentActionType(intent) ==
  CASE intent = "product_search" -> "product_search"
    [] intent = "price_negotiation" -> "promotions"
    [] intent = "prescription_refill" -> "prescriptions"
    [] intent = "order_status" -> "orders"
    [] OTHER -> "none"

\* A switch whose cases have no break: every case after the matching one
\* runs too.
executeActionsFallingThrough(analysis, lookupOk, customerOk) ==
  IF analysis = NullValue THEN <<[type |-> "error", data |-> "TypeError"]>>
  ELSE
    LET t == IntentActionType(GetField(analysis, "intent"))
        order == <<"product_search", "promotions", "prescriptions", "orders">>
        from == IF t = "none" THEN 5 ELSE CHOOSE i \in 1 .. 4 : order[i] = t
    IN [i \in 1 .. (5 - from) |->
          [type |-> order[from + i - 1], data |-> IF lookupOk THEN "rows" ELSE EmptyArray]]
       \o <<IF customerOk THEN [type |-> "customer_context", data |-> "customer"]
            ELSE [type |-> "error", data |-> "query failed"]>>

\* searchProducts, findApplicablePromotions, getPrescriptionHistory and
\* getRecentOrders catch their own errors and return []: a failed lookup
\* (lookupOk = FALSE) gives an action with empty data.  Reading .intent of a
\* null analysis, and a failed getCustomerById, throw into the catch of
\* executeActions, which pushes an error action.
executeActions(analysis, lookupOk, customerOk) ==
  IF analysis = NullValue THEN <<[type |-> "error", data |-> "TypeError"]>>
  ELSE
    LET t == IntentActionType(GetField(analysis, "intent"))
        first == IF t = "none" THEN <<>>
                 ELSE <<[type |-> t, data |-> IF lookupOk THEN "rows" ELSE EmptyArray]>>
    IN first \o
         <<IF customerOk THEN [type |-> "customer_context", data |-> "customer"]
           ELSE [type |-> "error", data |-> "query failed"]>>

\* --------------------------------------------------------- generateResponse
\* { content, usage } when the completion call succeeds; any error is
\* rethrown as Error('Failed to generate response').
Thrown(message) == [thrown |-> message]
IsThrown(v) == "thrown" \in DOMAIN v
\* A generateResponse whose catch returns instead of throwing.
generateResponseSwallowing(n, ok) ==
  [content |-> ReplyText(n), usage |-> "usage"]

generateResponse(n, ok) ==
  IF ok THEN [content |-> ReplyText(n), usage |-> "usage"]
  ELSE Thrown("Failed to generate response")

\* ------------------------------------------------ updateConversationContext
\* The synchronous part, up to the call of saveConversationContext.  The
\* context is the object in the map (or a new one): push and slice change
\* that object in place, so they show in the map even when the later
\* analysis.intent throws (a null analysis) and Map.set is never reached.
\* An unshift in place of the push: the new pair goes in front.
HistoryAfterUnshift(map, c, n) ==
  TurnPair(n) \o (IF c \in DOMAIN map THEN map[c].recent_messages ELSE <<>>)
\* The push without the slice.
HistoryAfterPushNoSlice(map, c, n) ==
  (IF c \in DOMAIN map THEN map[c].recent_messages ELSE <<>>) \o TurnPair(n)

HistoryAfterPush(map, c, n) ==
  LET before == IF c \in DOMAIN map THEN map[c].recent_messages ELSE <<>>
      pushed == before \o TurnPair(n)
  IN IF Len(pushed) > HistoryLimit THEN SliceLast(pushed, HistoryLimit) ELSE pushed

UpdateThrows(analysis) == analysis = NullValue

UpdatedContext(map, c, n, analysis, time) ==
  LET context == IF c \in DOMAIN map THEN map[c] ELSE [recent_messages |-> <<>>]
      kept == SetField(context, "recent_messages", HistoryAfterPush(map, c, n))
  IN IF UpdateThrows(analysis) THEN kept
     ELSE SetField(SetField(kept, "last_intent", GetField(analysis, "intent")),
                   "last_updated", time)

MapAfterUpdate(map, c, n, analysis, time) ==
  IF UpdateThrows(analysis) /\ c \notin DOMAIN map THEN map
  ELSE MapSet(map, c, UpdatedContext(map, c, n, analysis, time))

\* The parameters saveConversationContext hands to the upsert.
SaveParameters(c, context) ==
  [customer_id |-> c,
   recent_messages |-> JSONStringify(context.recent_messages),
   context_data |-> JSONStringify(IF "context_data" \in DOMAIN context
                                    THEN context.context_data ELSE EmptyObject)]

\* The INSERT without ON CONFLICT on a table without the UNIQUE constraint.
UpsertWithoutConflictClause(table, args) ==
  table \cup {NewRow(args.customer_id, args.recent_messages, args.context_data)}

\* INSERT ... ON CONFLICT (customer_id) DO NOTHING.
UpsertKeepingExistingRow(table, args) ==
  IF RowsOf(table, args.customer_id) = {}
    THEN table \cup {NewRow(args.customer_id, args.recent_messages, args.context_data)}
    ELSE table

\* INSERT ... ON CONFLICT (customer_id) DO UPDATE SET recent_messages,
\* context_data (and updated_at).
Upsert(table, args) ==
  IF RowsOf(table, args.customer_id) = {}
    THEN table \cup {NewRow(args.customer_id, args.recent_messages, args.context_data)}
    ELSE {IF r.customer_id = args.customer_id
            THEN [r EXCEPT !.recent_messages = args.recent_messages,
                           !.context_data = args.context_data]
            ELSE r : r \in table}

\* ---------------------------------------------------------- logConversation
\* The row of conversation_logs: the third parameter is the response object
\* { content, usage } itself, which the driver stores as its JSON text.
LogRow(c, n, aiResponse, ch) ==
  [customer_id |-> c, user_message |-> UserText(n),
   ai_response |-> JSONStringify(aiResponse), channel |-> ch]

\* ----------------------------------------------------------- processMessage
Apology ==
  <<"I apologize, but I'm experiencing some technical difficulties. Please try again in a moment, or contact our support team if the issue persists.", 0>>
\* A catch that rethrows.
ProcessMessageRethrow(message) ==
  [promise |-> "rejected", response |-> <<"rejected", 0>>, error |-> message]

\* The catch of processMessage.
ProcessMessageCatch(message) ==
  [promise |-> "resolved", response |-> Apology, error |-> message]
\* The return statement: reading .intent of a null analysis throws a
\* TypeError inside the try.
ProcessMessageReturn(resp, analysis, actions) ==
  IF analysis = NullValue
    THEN ProcessMessageCatch("Cannot read properties of null")
    ELSE [promise |-> "resolved", response |-> resp.content,
          intent |-> GetField(analysis, "intent"),
          confidence |-> GetField(analysis, "confidence"),
          actions |-> actions]

\* From the return of getConversationContext to the next await that touches
\* the cache or a table: analyzeMessage, executeActions and generateResponse
\* (their awaits read product, promotion, sales and customer data only, here
\* the outcomes reply, lookupOk, customerOk, generationOk), then, unless
\* generateResponse threw, the synchronous part of
\* updateConversationContext.  A null analysis makes that part throw into
\* its own catch, which skips the save; logConversation is called next.
Respond(p, reply, lookupOk, customerOk, generationOk) ==
  /\ pc[p] = "respond"
  /\ LET c == cust[p]
         analysis == analyzeMessage(reply)
         actions == executeActions(analysis, lookupOk, customerOk)
         resp == generateResponse(turn[p], generationOk)
         t1 == [trace[p] EXCEPT
                  !.classification =
                     IF ~reply.ok THEN "failed"
                     ELSE IF JSONParseThrows(reply.content) THEN "unparseable"
                     ELSE "parsed",
                  !.generation = IF generationOk THEN "ok" ELSE "threw",
                  !.lookup =
                     IF analysis = NullValue
                          \/ IntentActionType(GetField(analysis, "intent")) = "none"
                       THEN "none"
                     ELSE IF lookupOk THEN "ok" ELSE "failed",
                  !.customer =
                     IF analysis = NullValue THEN "none"
                     ELSE IF customerOk THEN "ok" ELSE "failed"]
     IN /\ messageAnalysis' = [messageAnalysis EXCEPT ![p] = analysis]
        /\ actionResults' = [actionResults EXCEPT ![p] = actions]
        /\ response' = [response EXCEPT ![p] = resp]
        /\ conversation' = [conversation EXCEPT ![p] = None]
        /\ IF IsThrown(resp)
             THEN /\ pc' = [pc EXCEPT ![p] = "done"]
                  /\ result' = [result EXCEPT ![p] = ProcessMessageCatch(resp.thrown)]
                  /\ trace' = [trace EXCEPT ![p] = t1]
                  /\ UNCHANGED <<conversations, saveArgs, appended, touched>>
             ELSE /\ conversations' =
                       MapAfterUpdate(conversations, c, turn[p], analysis, now)
                  /\ touched' = IF c \in DOMAIN conversations'
                                  THEN [touched EXCEPT ![c] = now] ELSE touched
                  /\ appended' = [appended EXCEPT ![c] = @ \o TurnPair(turn[p])]
                  /\ result' = result
                  /\ IF UpdateThrows(analysis)
                       THEN /\ pc' = [pc EXCEPT ![p] = "logging"]
                            /\ saveArgs' = saveArgs
                            /\ trace' = [trace EXCEPT ![p] =
                                 [t1 EXCEPT !.calls = <<"updateConversationContext",
                                                        "logConversation">>]]
                       ELSE /\ pc' = [pc EXCEPT ![p] = "saving"]
                            /\ saveArgs' = [saveArgs EXCEPT ![p] =
                                 SaveParameters(c, conversations'[c])]
                            /\ trace' = [trace EXCEPT ![p] =
                                 [t1 EXCEPT !.calls = <<"updateConversationContext">>,
                                            !.overlapped = OthersInFlight(p, c)]]
  /\ UNCHANGED <<conversationsTable, conversationLogs, timerStarted, now, nextTurn,
                 cust, channel, turn, removed, promotionVars, channelVars>>

\* The upsert returns: applied (ok), or failed, which saveConversationContext
\* logs and swallows.  processMessage goes on to logConversation, which
\* sends its INSERT.
SaveContext(p, ok) ==
  /\ pc[p] = "saving"
  /\ pc' = [pc EXCEPT ![p] = "logging"]
  /\ conversationsTable' =
       IF ok THEN Upsert(conversationsTable, saveArgs[p]) ELSE conversationsTable
  /\ saveArgs' = [saveArgs EXCEPT ![p] = None]
  /\ trace' = [trace EXCEPT ![p].save = IF ok THEN "ok" ELSE "failed",
                            ![p].calls = Append(@, "logConversation")]
  /\ UNCHANGED <<conversations, conversationLogs, timerStarted, now, nextTurn, cust,
                 channel, turn, conversation, messageAnalysis, actionResults,
                 response, result, appended, removed, touched, promotionVars, channelVars>>

\* The INSERT of logConversation returns: the row is in the table (ok), or
\* the error is logged and swallowed.  processMessage builds its result.
LogTurn(p, ok) ==
  /\ pc[p] = "logging"
  /\ pc' = [pc EXCEPT ![p] = "done"]
  /\ conversationLogs' =
       IF ok THEN Append(conversationLogs,
                         LogRow(cust[p], turn[p], response[p], channel[p]))
       ELSE conversationLogs
  /\ result' = [result EXCEPT ![p] =
       ProcessMessageReturn(response[p], messageAnalysis[p], actionResults[p])]
  /\ trace' = [trace EXCEPT ![p].log = IF ok THEN "ok" ELSE "failed"]
  /\ UNCHANGED <<conversations, conversationsTable, timerStarted, now, nextTurn, cust,
                 channel, turn, conversation, messageAnalysis, actionResults,
                 response, saveArgs, appended, removed, touched, promotionVars, channelVars>>

\* The caller (a route or a bot handler) takes the result; the slot is free.
Return(p) ==
  /\ pc[p] = "done"
  /\ pc' = [pc EXCEPT ![p] = "idle"]
  /\ cust' = [cust EXCEPT ![p] = "none"]
  /\ channel' = [channel EXCEPT ![p] = "none"]
  /\ turn' = [turn EXCEPT ![p] = 0]
  /\ messageAnalysis' = [messageAnalysis EXCEPT ![p] = None]
  /\ actionResults' = [actionResults EXCEPT ![p] = <<>>]
  /\ response' = [response EXCEPT ![p] = None]
  /\ result' = [result EXCEPT ![p] = None]
  /\ trace' = [trace EXCEPT ![p] = NoTrace]
  /\ UNCHANGED <<shared, nextTurn, conversation, saveArgs, appended, removed,
                 touched, promotionVars, channelVars>>

\* -------------------------------------------------------- startCleanupTimer
\* The method is called.  (Nothing in the repository calls it; it is the
\* only code that removes a cache entry.)
StartCleanupTimer ==
  /\ ~timerStarted
  /\ timerStarted' = TRUE
  /\ UNCHANGED <<conversations, conversationsTable, conversationLogs, now, nextTurn,
                 locals, appended, removed, touched, promotionVars, channelVars>>

\* The entries the interval callback deletes at time t: last_updated older
\* than an hour.  A context without last_updated (undefined < cutoff is
\* false) stays.
Expired(map, t) ==
  {c \in DOMAIN map : "last_updated" \in DOMAIN map[c]
                        /\ map[c].last_updated < t - MaxIdleMinutes}

\* Whether the entry of c is what a finished, saved turn left: no request of
\* c is running and the row of c holds the entry's messages.
Persisted(c) ==
  /\ ~\E q \in Procs : InFlight(q) /\ cust[q] = c
  /\ \E r \in RowsOf(conversationsTable, c) :
       JSONBParse(r.recent_messages) = conversations[c].recent_messages

\* Fifteen minutes pass; when the timer runs, its callback sweeps the map.
Tick ==
  /\ now < MaxClock * CleanupIntervalMinutes
  /\ now' = now + CleanupIntervalMinutes
  /\ LET gone == IF timerStarted THEN Expired(conversations, now') ELSE {}
     IN /\ conversations' = MapDelete(conversations, gone)
        /\ removed' = [c \in Customers |->
             IF c \in gone
               THEN [recent_messages |-> conversations[c].recent_messages,
                     last_intent |-> GetField(conversations[c], "last_intent"),
                     persisted |-> Persisted(c)]
               ELSE removed[c]]
        /\ touched' = [c \in Customers |->
             IF c \in gone THEN NeverTouched ELSE touched[c]]
  /\ UNCHANGED <<conversationsTable, conversationLogs, timerStarted, nextTurn,
                 locals, appended, promotionVars, channelVars>>

\* The requests of the slots P, with the outcomes of the classification
\* call drawn from Replies, those of the lookups from Lookups, and the
\* requests' customers from Custs and channels from Chans; at most limit
\* requests are started.
Requests(P, Custs, Replies, Lookups, Chans, limit) ==
  \/ \E p \in P, c \in Custs, ch \in Chans : Start(p, c, ch, limit)
  \/ \E p \in P, ok \in BOOLEAN : LoadContext(p, ok)
  \/ \E p \in P, reply \in Replies, lookupOk \in Lookups, customerOk \in Lookups,
        generationOk \in BOOLEAN :
       Respond(p, reply, lookupOk, customerOk, generationOk)
  \/ \E p \in P, ok \in BOOLEAN : SaveContext(p, ok)
  \/ \E p \in P, ok \in BOOLEAN : LogTurn(p, ok)
  \/ \E p \in P : Return(p)

\* One reply of each kind that the cache and the tables can tell apart: a
\* failed call, a null analysis, an analysis object.
StoreReplies ==
  {[ok |-> FALSE], [ok |-> TRUE, content |-> [text |-> "null"]],
   [ok |-> TRUE, content |-> [text |-> "json", value |-> AnalysisObject("product_search", 9)]]}

\* The customers that send messages; the other one has a row from earlier
\* turns, which nothing here may touch.
Active == {"c1"}
InitActive == Init /\ \A c \in Customers \ Active : RowsOf(conversationsTable, c) # {}

\* The service as server.js runs it: the cleanup timer is never started.
\* Requests overlap, all of one customer.
Next == Requests(Procs, Active, StoreReplies, {TRUE}, {"web"}, MaxTurns)
Spec == InitActive /\ [][Next]_vars

\* One request at a time, with every outcome of every call.
NextSeq == Requests({"p1"}, Active, ClassifierReplies, BOOLEAN, Channels, MaxSeqTurns)
SpecSeq == InitActive /\ [][NextSeq]_vars

\* One request at a time under a host that starts the cleanup timer.
NextSweep ==
  \/ Requests({"p1"}, Active, StoreReplies, {TRUE}, {"web"}, MaxSeqTurns)
  \/ StartCleanupTimer
  \/ Tick
SpecSweep == InitActive /\ [][NextSweep]_vars

\* =========================================================== PromotionService
\* (src/src/services/PromotionService.js)
\* Values of nullable columns as the driver returns them: null (NullValue),
\* or a string (VARCHAR, TEXT) or a number (INTEGER) in a record of its own.
\* A string is kept as the sequence of its parts, a comma being a part of
\* its own: "seniors,new_customers" is <<"seniors", ",", "new_customers">>.
Text(parts) == [text |-> parts]
Integer(n) == [int |-> n]
\* JavaScript truthiness: null, "" and 0 are falsy.
Truthy(v) ==
  CASE "null" \in DOMAIN v -> FALSE
    [] "text" \in DOMAIN v -> v.text # <<>>
    [] "int" \in DOMAIN v -> v.int # 0
    [] OTHER -> TRUE

\* String.prototype.split(','): the list of the runs between the commas.
RECURSIVE Split(_)
Split(parts) ==
  IF \A i \in 1 .. Len(parts) : parts[i] # "," THEN <<parts>>
  ELSE LET k == CHOOSE i \in 1 .. Len(parts) :
                  parts[i] = "," /\ \A j \in 1 .. (i - 1) : parts[j] # ","
       IN <<SubSeq(parts, 1, k - 1)>> \o Split(SubSeq(parts, k + 1, Len(parts)))
\* Array.prototype.includes(word) on such a list.
Includes(list, word) == \E i \in 1 .. Len(list) : list[i] = <<word>>
\* String.prototype.toLowerCase and String.prototype.includes(word).
LowerCaseOf(part) ==
  CASE part = "Diabetes" -> "diabetes"
    [] part = "DIABETES" -> "diabetes"
    [] part = "Type 2 " -> "type 2 "
    [] part = "Hypertension" -> "hypertension"
    [] OTHER -> part
ToLowerCase(parts) == [i \in 1 .. Len(parts) |-> LowerCaseOf(parts[i])]
StringIncludes(parts, word) == \E i \in 1 .. Len(parts) : parts[i] = word

\* new Date(): the day of the call, and its time in hours from that day's
\* midnight.  A TIMESTAMP is hours from the same midnight (negative: before).
Today == [year |-> 2026, month |-> 6, day |-> 15]
NowHour == 12
HoursPerDay == 24

\* The thresholds of the segment rules.
SeniorAge == 65
NewCustomerDays == 30
LoyaltyPoints == 100
RegularPrescriptions == 5

\* -------------------------------------------------------------- calculateAge
calculateAge(birthDate) ==
  IF birthDate = NullValue THEN 0
  ELSE LET age == Today.year - birthDate.year
           monthDiff == Today.month - birthDate.month
       IN IF monthDiff < 0 \/ (monthDiff = 0 /\ Today.day < birthDate.day)
            THEN age - 1 ELSE age

\* --------------------------------------------------- checkCustomerEligibility
\* The segment block that never reaches `return false`.
SegmentOutcomeNeverFalse(customer, promotion) ==
  IF Truthy(promotion.customer_segments) /\ promotion.customer_segments # Text(<<"all">>)
    THEN LET segments == Split(promotion.customer_segments.text)
         IN IF \/ Includes(segments, "seniors")
                     /\ calculateAge(customer.date_of_birth) >= SeniorAge
               \/ Includes(segments, "loyalty_members")
                     /\ customer.loyalty_points > LoyaltyPoints
              THEN "return true" ELSE "continue"
    ELSE "continue"

\* The segment block (lines 63-97): "return true" when the rule of a listed
\* tag holds, "return false" when none does and the list has no "all",
\* "continue" (on to the product and category checks) otherwise.
SegmentOutcome(customer, promotion) ==
  IF Truthy(promotion.customer_segments) /\ promotion.customer_segments # Text(<<"all">>)
    THEN LET segments == Split(promotion.customer_segments.text)
             thirtyDaysAgo == NowHour - NewCustomerDays * HoursPerDay
         IN IF \/ Includes(segments, "seniors")
                     /\ calculateAge(customer.date_of_birth) >= SeniorAge
               \/ Includes(segments, "new_customers")
                     /\ customer.registration_date > thirtyDaysAgo
               \/ Includes(segments, "loyalty_members")
                     /\ customer.loyalty_points > LoyaltyPoints
               \/ Includes(segments, "diabetic_customers")
                     /\ Truthy(customer.medical_conditions)
                     /\ StringIncludes(ToLowerCase(customer.medical_conditions.text),
                                       "diabetes")
               \/ Includes(segments, "regular_customers")
                     /\ customer.prescription_count > RegularPrescriptions
              THEN "return true"
            ELSE IF ~Includes(segments, "all") THEN "return false"
            ELSE "continue"
    ELSE "continue"

\* The product and category checks (lines 100-114).
ProductOutcome(promotion, products) ==
  LET hasApplicableProduct ==
        \E i \in 1 .. Len(products) :
          Includes(Split(promotion.applicable_products.text), products[i].product_id)
      hasApplicableCategory ==
        \E i \in 1 .. Len(products) :
          Includes(Split(promotion.applicable_categories.text), products[i].category)
  IN IF Truthy(promotion.applicable_products) /\ ~hasApplicableProduct
          /\ Len(products) > 0 THEN FALSE
     ELSE IF Truthy(promotion.applicable_categories) /\ ~hasApplicableCategory
          /\ Len(products) > 0 THEN FALSE
     ELSE TRUE

checkCustomerEligibility(customer, promotion, products) ==
  LET outcome == SegmentOutcome(customer, promotion)
  IN IF outcome = "return true" THEN TRUE
     ELSE IF outcome = "return false" THEN FALSE
     ELSE ProductOutcome(promotion, products)

\* A row of promotions with the defaults of the schema; the rows used below
\* differ from it in the columns they name.
BasePromotion ==
  [promotion_id |-> "promo1", name |-> "promotion name",
   description |-> "promotion description",
   start_date |-> [year |-> 2026, month |-> 1, day |-> 1],
   end_date |-> [year |-> 2026, month |-> 12, day |-> 31],
   discount_percentage |-> NullValue, discount_amount |-> NullValue,
   min_purchase_amount |-> NullValue, max_discount_amount |-> NullValue,
   applicable_products |-> NullValue, applicable_categories |-> NullValue,
   customer_segments |-> NullValue, total_usage_limit |-> NullValue,
   current_usage |-> 0, status |-> "active"]

\* The customer_segments values, the product restrictions, the customers and
\* the candidate product lists checkCustomerEligibility is called with.  Each
\* rule has a customer on either side of its threshold: 65 years today and
\* tomorrow, registered thirty days ago less or plus six hours, 100 and 101
\* points, five and six prescriptions.
SegmentValues ==
  {NullValue, Text(<<>>), Text(<<"all">>), Text(<<"seniors">>),
   Text(<<"new_customers">>), Text(<<"loyalty_members">>),
   Text(<<"diabetic_customers">>), Text(<<"regular_customers">>),
   Text(<<"seniors", ",", "new_customers">>),
   Text(<<"loyalty_members", ",", "regular_customers">>),
   Text(<<"seniors", ",", "all">>), Text(<<"students">>)}
EligibilityPromotions ==
  {[BasePromotion EXCEPT !.customer_segments = s, !.applicable_products = ps,
                         !.applicable_categories = cs] :
     s \in SegmentValues, ps \in {NullValue, Text(<<"P1", ",", "P2">>)},
     cs \in {NullValue, Text(<<"vitamins">>)}}
EligibilityCustomers ==
  {[customer_id |-> "c1", date_of_birth |-> dob, registration_date |-> reg,
    loyalty_points |-> points, medical_conditions |-> conditions,
    prescription_count |-> count] :
     dob \in {NullValue, [year |-> 1961, month |-> 6, day |-> 15],
              [year |-> 1961, month |-> 6, day |-> 16]},
     reg \in {18 - NewCustomerDays * HoursPerDay, 6 - NewCustomerDays * HoursPerDay},
     points \in {LoyaltyPoints, LoyaltyPoints + 1},
     conditions \in {NullValue, Text(<<"Type 2 ", "Diabetes">>), Text(<<"Hypertension">>)},
     count \in {RegularPrescriptions, RegularPrescriptions + 1}}
ProductLists ==
  {<<>>, <<[product_id |-> "P1", category |-> "vitamins"]>>,
   <<[product_id |-> "P3", category |-> "pain relief"]>>,
   <<[product_id |-> "P3", category |-> "pain relief"],
     [product_id |-> "P2", category |-> "pain relief"]>>}

\* checkCustomerEligibility is called (by getApplicablePromotions' filter or
\* by any other caller) and returns.
EligibilityCall(customer, promotion, products) ==
  /\ eligibility' =
       [customer |-> customer, promotion |-> promotion, products |-> products,
        segments |-> SegmentOutcome(customer, promotion),
        result |-> checkCustomerEligibility(customer, promotion, products)]
  /\ UNCHANGED <<pipelineVars, channelVars, promotionsTable, customersTable, nextApply, applyCall>>

\* The function is static and keeps nothing between calls: a run follows one
\* call.
NextEligibility ==
  /\ eligibility = None
  /\ \E customer \in EligibilityCustomers, promotion \in EligibilityPromotions,
        products \in ProductLists : EligibilityCall(customer, promotion, products)
SpecEligibility == InitActive /\ [][NextEligibility]_vars

\* ------------------------------------------------------------ applyPromotion
\* A DECIMAL column comes back from the driver as a string, "5.00" or
\* "10.00": Numeric(h) is the string that writes h hundredths.  A JavaScript
\* number is kept in hundredths as well: Number(500) is 5.
Numeric(h) == [numeric |-> h]
Number(h) == [number |-> h]
\* The number a value converts to (in hundredths).
ToNumber(v) == IF "numeric" \in DOMAIN v THEN v.numeric ELSE v.number
\* The UTF-16 code units of the characters "0" and ".".
CodeOfZero == 48
CodeOfPoint == 46
\* The characters of a DECIMAL(.,2) string, as code units: the integer part
\* without leading zeros, the point, two decimals.
RECURSIVE Digits(_)
Digits(n) ==
  IF n < 10 THEN <<CodeOfZero + n>> ELSE Digits(n \div 10) \o <<CodeOfZero + (n % 10)>>
Format(h) ==
  Digits(h \div 100) \o <<CodeOfPoint, CodeOfZero + ((h \div 10) % 10), CodeOfZero + (h % 10)>>
\* a > b on two strings: by code units, a proper prefix being smaller.
RECURSIVE StringGreater(_, _)
StringGreater(a, b) ==
  IF a = <<>> THEN FALSE
  ELSE IF b = <<>> THEN TRUE
  ELSE IF Head(a) # Head(b) THEN Head(a) > Head(b)
  ELSE StringGreater(Tail(a), Tail(b))
\* A comparison that converts both sides to numbers whatever they are.
GreaterAsNumbers(a, b) == ToNumber(a) > ToNumber(b)

\* a > b in JavaScript: two strings are compared as strings, anything else
\* as numbers.
Greater(a, b) ==
  IF "numeric" \in DOMAIN a /\ "numeric" \in DOMAIN b
    THEN StringGreater(Format(a.numeric), Format(b.numeric))
    ELSE ToNumber(a) > ToNumber(b)

\* The divisor of line 172.
Hundred == 100
\* (orderTotal * discount_percentage) / 100 on numbers kept in hundredths;
\* the order totals and percentages below make the division exact.
PercentageOf(orderTotal, percentage) ==
  ((orderTotal * ToNumber(percentage)) \div 100) \div Hundred

\* Lines 168-180: the discount of a promotion row on an order total.
DiscountAmount(promotion, orderTotal) ==
  LET discountAmount ==
        IF Truthy(promotion.discount_percentage)
          THEN Number(PercentageOf(orderTotal, promotion.discount_percentage))
        ELSE IF Truthy(promotion.discount_amount) THEN promotion.discount_amount
        ELSE Number(0)
  IN IF Truthy(promotion.max_discount_amount)
          /\ Greater(discountAmount, promotion.max_discount_amount)
       THEN promotion.max_discount_amount
       ELSE discountAmount

\* A minimum that is never enforced.
BelowMinimumNever(promotion, orderTotal) == FALSE

\* Line 161: the order total is below a (truthy) min_purchase_amount.
BelowMinimum(promotion, orderTotal) ==
  /\ Truthy(promotion.min_purchase_amount)
  /\ orderTotal < ToNumber(promotion.min_purchase_amount)

\* The results of applyPromotion; an error message is the sequence of its
\* parts.
Failure(message) == [success |-> FALSE, error |-> message]
MinimumPurchaseMessage(amount) ==
  <<"Minimum purchase amount of $", Format(amount.numeric), " required">>
Success(promotion, orderTotal, discountAmount) ==
  [success |-> TRUE, discountAmount |-> discountAmount,
   finalTotal |-> Number(orderTotal - ToNumber(discountAmount)),
   promotion |-> [id |-> promotion.promotion_id, name |-> promotion.name,
                  description |-> promotion.description]]

\* Date comparison of the SQL filter.
DateLeq(a, b) ==
  \/ a.year < b.year
  \/ a.year = b.year /\ a.month < b.month
  \/ a.year = b.year /\ a.month = b.month /\ a.day <= b.day
\* The rows getActivePromotions returns (in any order).
getActivePromotions(table) ==
  {r \in table : r.status = "active" /\ DateLeq(r.start_date, Today)
                   /\ DateLeq(Today, r.end_date)}

\* The call applyPromotion(promotionId, customerId, orderTotal, products)
\* runs to its first await, the SELECT of getPromotionById.
ApplyStart(a, promotionId, customerId, orderTotal, limit) ==
  /\ applyCall[a].pc = "idle"
  /\ nextApply <= limit
  /\ nextApply' = nextApply + 1
  /\ applyCall' = [applyCall EXCEPT ![a] =
       [pc |-> "getPromotionById", n |-> nextApply, promotionId |-> promotionId,
        customerId |-> customerId, orderTotal |-> orderTotal, products |-> <<>>,
        promotion |-> None, incremented |-> FALSE, current_usage |-> None,
        result |-> None]]
  /\ UNCHANGED <<pipelineVars, channelVars, eligibility, promotionsTable, customersTable>>

\* The call of slot a ends with this result.
Finish(a, outcome) == [applyCall EXCEPT ![a].pc = "done", ![a].result = outcome]

\* getPromotionById's SELECT returns: a rejected query ends in the catch of
\* applyPromotion, no row in 'Promotion not found'; otherwise the customer's
\* SELECT is sent.
GetPromotionReturns(a, ok) ==
  /\ applyCall[a].pc = "getPromotionById"
  /\ LET rows == {r \in promotionsTable : r.promotion_id = applyCall[a].promotionId}
     IN applyCall' =
          IF ~ok THEN Finish(a, Failure(<<"Failed to apply promotion">>))
          ELSE IF rows = {} THEN Finish(a, Failure(<<"Promotion not found">>))
          ELSE [applyCall EXCEPT ![a].pc = "getCustomer",
                                 ![a].promotion = CHOOSE r \in rows : TRUE]
  /\ UNCHANGED <<pipelineVars, channelVars, eligibility, promotionsTable, customersTable, nextApply>>

\* The customer's SELECT returns; the checks of lines 151-166 and the
\* discount of lines 168-180 follow without an await, then the UPDATE of
\* incrementPromotionUsage is sent.
GetCustomerReturns(a, ok) ==
  /\ applyCall[a].pc = "getCustomer"
  /\ LET call == applyCall[a]
         promotion == call.promotion
         rows == {r \in customersTable : r.customer_id = call.customerId}
     IN applyCall' =
          IF ~ok THEN Finish(a, Failure(<<"Failed to apply promotion">>))
          ELSE IF rows = {} THEN Finish(a, Failure(<<"Customer not found">>))
          ELSE IF ~checkCustomerEligibility(CHOOSE r \in rows : TRUE, promotion,
                                            call.products)
            THEN Finish(a, Failure(<<"Customer not eligible for this promotion">>))
          ELSE IF BelowMinimum(promotion, call.orderTotal)
            THEN Finish(a, Failure(MinimumPurchaseMessage(promotion.min_purchase_amount)))
          ELSE [applyCall EXCEPT ![a].pc = "incrementPromotionUsage"]
  /\ UNCHANGED <<pipelineVars, channelVars, eligibility, promotionsTable, customersTable, nextApply>>

\* UPDATE promotions SET current_usage = current_usage + 1 WHERE promotion_id.
IncrementUsage(table, promotionId) ==
  {IF r.promotion_id = promotionId
     THEN [r EXCEPT !.current_usage = @ + 1] ELSE r : r \in table}
\* An UPDATE that changes no row.
SetExpiredNowhere(table, promotionId) == table
\* UPDATE promotions SET status = 'expired' WHERE promotion_id.
SetExpired(table, promotionId) ==
  {IF r.promotion_id = promotionId THEN [r EXCEPT !.status = "expired"] ELSE r :
     r \in table}

\* The UPDATE of incrementPromotionUsage returns.  Rejected: the error is
\* rethrown into the catch of applyPromotion.  Applied: with the returned
\* current_usage at or above a (truthy) total_usage_limit the second UPDATE
\* is sent; otherwise applyPromotion returns its success result.
IncrementReturns(a, ok) ==
  /\ applyCall[a].pc = "incrementPromotionUsage"
  /\ LET call == applyCall[a]
         table == IncrementUsage(promotionsTable, call.promotionId)
         returning == {r \in table : r.promotion_id = call.promotionId}
         counted == [applyCall EXCEPT
                       ![a].incremented = TRUE,
                       ![a].current_usage =
                          IF returning = {} THEN None
                          ELSE (CHOOSE r \in returning : TRUE).current_usage]
     IN IF ~ok
          THEN /\ promotionsTable' = promotionsTable
               /\ applyCall' = Finish(a, Failure(<<"Failed to apply promotion">>))
          ELSE /\ promotionsTable' = table
               /\ applyCall' =
                    IF \E r \in returning :
                         Truthy(r.total_usage_limit)
                           /\ r.current_usage >= r.total_usage_limit.int
                      THEN [counted EXCEPT ![a].pc = "expire"]
                      ELSE [counted EXCEPT
                              ![a].pc = "done",
                              ![a].result =
                                 Success(call.promotion, call.orderTotal,
                                         DiscountAmount(call.promotion, call.orderTotal))]
  /\ UNCHANGED <<pipelineVars, channelVars, eligibility, customersTable, nextApply>>

\* The UPDATE that expires the promotion returns; applyPromotion returns.
ExpireReturns(a, ok) ==
  /\ applyCall[a].pc = "expire"
  /\ LET call == applyCall[a]
     IN IF ~ok
          THEN /\ promotionsTable' = promotionsTable
               /\ applyCall' = Finish(a, Failure(<<"Failed to apply promotion">>))
          ELSE /\ promotionsTable' = SetExpired(promotionsTable, call.promotionId)
               /\ applyCall' =
                    Finish(a, Success(call.promotion, call.orderTotal,
                                      DiscountAmount(call.promotion, call.orderTotal)))
  /\ UNCHANGED <<pipelineVars, channelVars, eligibility, customersTable, nextApply>>

\* The caller takes the result.
ApplyReturn(a) ==
  /\ applyCall[a].pc = "done"
  /\ applyCall' = [applyCall EXCEPT ![a] = IdleCall]
  /\ UNCHANGED <<pipelineVars, channelVars, eligibility, promotionsTable, customersTable, nextApply>>

\* The applyPromotion calls of the slots S, for promotions Promos, customers
\* Custs and order totals Totals, with the queries failing or not as Oks
\* allows; at most limit calls are started.
Applications(S, Promos, Custs, Totals, Oks, limit) ==
  \/ \E a \in S, promotionId \in Promos, customerId \in Custs, orderTotal \in Totals :
       ApplyStart(a, promotionId, customerId, orderTotal, limit)
  \/ \E a \in S, ok \in Oks : GetPromotionReturns(a, ok)
  \/ \E a \in S, ok \in Oks : GetCustomerReturns(a, ok)
  \/ \E a \in S, ok \in Oks : IncrementReturns(a, ok)
  \/ \E a \in S, ok \in Oks : ExpireReturns(a, ok)
  \/ \E a \in S : ApplyReturn(a)

\* The discount columns of a promotion: a percentage; a percentage and a
\* fixed amount; a percentage capped below what it gives on 50; a fixed
\* amount below its cap; a fixed amount without cap; a fixed amount above
\* its cap.
DiscountColumns ==
  {[percentage |-> Numeric(1000), amount |-> NullValue, max |-> NullValue],
   [percentage |-> Numeric(1000), amount |-> Numeric(300), max |-> NullValue],
   [percentage |-> Numeric(5000), amount |-> NullValue, max |-> Numeric(1000)],
   [percentage |-> NullValue, amount |-> Numeric(500), max |-> Numeric(1000)],
   [percentage |-> NullValue, amount |-> Numeric(500), max |-> NullValue],
   [percentage |-> NullValue, amount |-> Numeric(2000), max |-> Numeric(1000)]}
MinimumPurchases == {NullValue, Numeric(3000)}
\* The promotions table when the service starts: one row, unused, with any
\* discount columns, or with a usage limit and any segment restriction.
ApplyPromotions ==
  {[BasePromotion EXCEPT !.discount_percentage = d.percentage,
                         !.discount_amount = d.amount,
                         !.max_discount_amount = d.max,
                         !.min_purchase_amount = m] :
     d \in DiscountColumns, m \in MinimumPurchases}
  \cup
  {[BasePromotion EXCEPT !.discount_percentage = Numeric(1000),
                         !.min_purchase_amount = m,
                         !.customer_segments = s,
                         !.total_usage_limit = l] :
     m \in MinimumPurchases, s \in {NullValue, Text(<<"seniors">>)},
     l \in {Integer(1), Integer(2)}}
\* The promotions with a usage limit.
LimitedPromotions == {r \in ApplyPromotions : r.total_usage_limit # NullValue}
\* The customers table: one customer, 65 or 36 years old.
ApplyCustomers ==
  {[customer_id |-> "c1", date_of_birth |-> dob, registration_date |-> -9000,
    loyalty_points |-> 0, medical_conditions |-> NullValue, prescription_count |-> 0] :
     dob \in {[year |-> 1961, month |-> 6, day |-> 15],
              [year |-> 1990, month |-> 1, day |-> 1]}}
\* Order totals: 20 and 50.
OrderTotals == {2000, 5000}

\* The service with the promotions table holding one of rows and the
\* customers table one of ApplyCustomers; no message is being processed.
InitApply(rows) ==
  /\ InitPipeline
  /\ \A c \in Customers : RowsOf(conversationsTable, c) # {}
  /\ eligibility = None
  /\ promotionsTable \in {{r} : r \in rows}
  /\ customersTable \in {{c} : c \in ApplyCustomers}
  /\ nextApply = 1
  /\ applyCall = [a \in ApplySlots |-> IdleCall]
  /\ NoChannelActivity

\* Overlapping applyPromotion calls on a promotion with a usage limit.
NextApply ==
  Applications(ApplySlots, {"promo1"}, {"c1"}, OrderTotals, BOOLEAN, MaxApplies)
SpecApply == InitApply(LimitedPromotions) /\ [][NextApply]_vars

\* One applyPromotion call at a time, for every promotion row, with
\* promotion and customer ids that exist and that do not.
NextApplySeq ==
  Applications({"a1"}, {"promo1", "promo9"}, {"c1", "c9"}, OrderTotals, BOOLEAN,
               MaxSeqApplies)
SpecApplySeq == InitApply(ApplyPromotions) /\ [][NextApplySeq]_vars

\* One applyPromotion call at a time on small orders: an empty order and an
\* order of 3.
NextApplySmall ==
  Applications({"a1"}, {"promo1"}, {"c1"}, {0, 300}, BOOLEAN, MaxSeqApplies)
SpecApplySmall == InitApply(ApplyPromotions) /\ [][NextApplySmall]_vars

\* ================================================ AIAgentService's helpers
\* (src/src/services/AIAgentService.js, lines 235-317)
\* Array.prototype.slice(0, n): the first n elements.
SliceFirst(s, n) == IF Len(s) <= n THEN s ELSE SubSeq(s, 1, n)
\* The caps of findApplicablePromotions and of searchProducts.
PromotionCap == 5
ProductCap == 10

\* calculateAge of AIAgentService (lines 306-317): no guard for a missing
\* date; new Date(null) is 1 January 1970.
AgentCalculateAge(birthDate) ==
  LET birth == IF birthDate = NullValue THEN [year |-> 1970, month |-> 1, day |-> 1]
               ELSE birthDate
      age == Today.year - birth.year
      monthDiff == Today.month - birth.month
  IN IF monthDiff < 0 \/ (monthDiff = 0 /\ Today.day < birth.day)
       THEN age - 1 ELSE age

\* checkCustomerSegmentEligibility (lines 296-304): String.prototype.includes
\* on the column's text, three tags.
checkCustomerSegmentEligibility(customer, segments) ==
  \/ /\ StringIncludes(segments.text, "seniors")
     /\ AgentCalculateAge(customer.date_of_birth) >= SeniorAge
  \/ /\ StringIncludes(segments.text, "new_customers")
     /\ customer.registration_date > NowHour - NewCustomerDays * HoursPerDay
  \/ /\ StringIncludes(segments.text, "loyalty_members")
     /\ customer.loyalty_points > LoyaltyPoints

\* The filter callback of findApplicablePromotions (lines 281-287).
SegmentFilter(customer, promo) ==
  IF Truthy(promo.customer_segments) /\ promo.customer_segments # Text(<<"all">>)
    THEN checkCustomerSegmentEligibility(customer, promo.customer_segments)
    ELSE TRUE
\* The callback reads customer.date_of_birth: a TypeError when getCustomerById
\* resolved to null.
SegmentFilterThrows(customer, promo) ==
  /\ Truthy(promo.customer_segments) /\ promo.customer_segments # Text(<<"all">>)
  /\ customer = NullValue

\* findApplicablePromotions is called and returns.  customer is what
\* getCustomerById resolved to and activePromotions the rows of
\* getActivePromotions, in the order of the query; ok is FALSE when one of
\* the two queries was rejected.  Every error ends in the catch: [].
FindApplicablePromotions(customer, activePromotions, ok) ==
  /\ LET Keep(promo) == SegmentFilter(customer, promo)
         throws == \/ ~ok
                   \/ \E i \in 1 .. Len(activePromotions) :
                        SegmentFilterThrows(customer, activePromotions[i])
         applicablePromotions ==
           IF throws THEN <<>> ELSE SelectSeq(activePromotions, Keep)
     IN composed' =
          [customer |-> customer, activePromotions |-> activePromotions,
           threw |-> throws, applicablePromotions |-> applicablePromotions,
           result |-> SliceFirst(applicablePromotions, PromotionCap)]
  /\ UNCHANGED <<pipelineVars, promotionVars, client, searched, botCall, dateNow>>

\* The rows of getActivePromotions: one promotion for each customer_segments
\* value, or the six unrestricted promotions of a busy season.
PromotionLists ==
  {<<[BasePromotion EXCEPT !.customer_segments = s]>> : s \in SegmentValues}
    \cup {[i \in 1 .. (PromotionCap + 1) |->
             [BasePromotion EXCEPT !.promotion_id = <<"promo", i>>]]}

\* The helper keeps nothing between calls: a run follows one call.
NextComposer ==
  /\ composed = None
  /\ \E customer \in EligibilityCustomers \cup {NullValue},
        activePromotions \in PromotionLists, ok \in BOOLEAN :
       FindApplicablePromotions(customer, activePromotions, ok)
SpecComposer == InitActive /\ [][NextComposer]_vars

\* ------------------------------------------------------------ searchProducts
\* products.concat(found) over the results of the queries of one kind.
RECURSIVE Flatten(_)
Flatten(results) ==
  IF results = <<>> THEN <<>> ELSE Head(results) \o Flatten(Tail(results))
\* self.findIndex(p => p.id === id): the first place holding that id.
FindIndex(self, id) ==
  CHOOSE i \in 1 .. Len(self) :
    self[i].id = id /\ \A j \in 1 .. (i - 1) : self[j].id # id
\* A filter that keeps every product.
UniqueProductsKeepingAll(products) == products
\* products.filter((product, index, self) => index === self.findIndex(...)).
RECURSIVE FilterFrom(_, _)
FilterFrom(self, index) ==
  IF index > Len(self) THEN <<>>
  ELSE (IF index = FindIndex(self, self[index].id) THEN <<self[index]>> ELSE <<>>)
         \o FilterFrom(self, index + 1)
UniqueProducts(products) == FilterFrom(products, 1)

\* searchProducts is called and returns.  byName, bySymptom and byCategory
\* are the rows the queries for the names, the symptoms and the categories
\* of the entities came back with, one list per term; ok is FALSE when a
\* query was rejected (or entities is missing), which ends in the catch: [].
SearchProducts(byName, bySymptom, byCategory, ok) ==
  /\ LET products == Flatten(byName) \o Flatten(bySymptom) \o Flatten(byCategory)
     IN searched' =
          [byName |-> byName, bySymptom |-> bySymptom, byCategory |-> byCategory,
           threw |-> ~ok,
           result |-> IF ok THEN SliceFirst(UniqueProducts(products), ProductCap)
                      ELSE <<>>]
  /\ UNCHANGED <<pipelineVars, promotionVars, client, composed, botCall, dateNow>>

\* Rows of table products (id SERIAL PRIMARY KEY, product_id UNIQUE), and
\* what the queries of each kind may come back with.
Product(n) == [id |-> n, product_id |-> <<"P", n>>]
NameResults ==
  {<<>>, <<<<Product(1), Product(2)>>>>, <<<<Product(2), Product(1)>>, <<Product(3)>>>>,
   <<<<Product(1)>>, <<Product(1), Product(4)>>>>}
SymptomResults ==
  {<<>>, <<<<Product(2), Product(5)>>>>, <<[i \in 1 .. 8 |-> Product(i + 4)]>>,
   <<<<Product(1)>>, <<Product(6), Product(2)>>>>}
CategoryResults ==
  {<<>>, <<[i \in 1 .. 12 |-> Product(i)]>>,
   <<<<Product(12), Product(11), Product(3)>>>>, <<<<Product(4)>>, <<Product(4)>>>>}

\* The helper keeps nothing between calls: a run follows one call.
NextSearch ==
  /\ searched = None
  /\ \E byName \in NameResults, bySymptom \in SymptomResults,
        byCategory \in CategoryResults, ok \in BOOLEAN :
       SearchProducts(byName, bySymptom, byCategory, ok)
SpecSearch == InitActive /\ [][NextSearch]_vars

\* ============================================================= WhatsAppBot
\* (src/src/services/WhatsAppBot.js; the Telegram adapter's getOrCreateCustomer,
\* src/unnamed/part_006 lines 829-873, is the same code with telegram_id)
\* handleIncomingMessage is called for a text message from a phone number and
\* runs to its first await, the SELECT of getOrCreateCustomer.
HandleIncomingMessage(b, from) ==
  /\ botCall[b].pc = "idle"
  /\ botCall' = [botCall EXCEPT ![b] = [pc |-> "selecting", from |-> from]]
  /\ UNCHANGED <<pipelineVars, promotionVars, client, composed, searched, dateNow>>

\* The SELECT returns.  With rows: rows[0] is the customer (the query has
\* no ORDER BY: any of the rows), and processMessage is called with its
\* customer_id.  Without rows: the id is made from Date.now() and the INSERT
\* is sent.  With an error: getOrCreateCustomer rethrows and the message is
\* answered with an apology.
CustomerSelectReturns(b, ok) ==
  /\ botCall[b].pc = "selecting"
  /\ LET from == botCall[b].from
         rows == {r \in customersTable : r.whatsapp_phone = from \/ r.phone = from}
     IN IF ~ok THEN botCall' = [botCall EXCEPT ![b] = [pc |-> "failed", from |-> from]]
        ELSE IF rows # {}
          THEN \E r \in rows :
                 botCall' = [botCall EXCEPT ![b] =
                   [pc |-> "processed", from |-> from, customerId |-> r.customer_id]]
        ELSE botCall' = [botCall EXCEPT ![b] =
               [pc |-> "inserting", from |-> from, customerId |-> <<"CUST-WA-", dateNow>>]]
  /\ UNCHANGED <<pipelineVars, promotionVars, client, composed, searched, dateNow>>

\* The INSERT returns.  It is rejected when a row has the customer_id (or
\* the email made from it) already, both UNIQUE, or when the database
\* fails (ok = FALSE); otherwise the row is added and processMessage is
\* called with its customer_id.  Nothing constrains whatsapp_phone.
CustomerInsertReturns(b, ok) ==
  /\ botCall[b].pc = "inserting"
  /\ LET from == botCall[b].from
         customerId == botCall[b].customerId
         accepted == ok /\ \A r \in customersTable : r.customer_id # customerId
     IN IF accepted
          THEN /\ customersTable' = customersTable \cup
                    {[customer_id |-> customerId, phone |-> from, whatsapp_phone |-> from]}
               /\ botCall' = [botCall EXCEPT ![b] =
                    [pc |-> "processed", from |-> from, customerId |-> customerId]]
          ELSE /\ customersTable' = customersTable
               /\ botCall' = [botCall EXCEPT ![b] = [pc |-> "failed", from |-> from]]
  /\ UNCHANGED <<pipelineVars, eligibility, promotionsTable, nextApply, applyCall,
                 client, composed, searched, dateNow>>

\* handleIncomingMessage returns, after the reply or the apology was sent.
BotReturn(b) ==
  /\ botCall[b].pc \in {"processed", "failed"}
  /\ botCall' = [botCall EXCEPT ![b] = IdleCall]
  /\ UNCHANGED <<pipelineVars, promotionVars, client, composed, searched, dateNow>>

\* A millisecond passes.
ClockTick ==
  /\ dateNow < MaxMillis
  /\ dateNow' = dateNow + 1
  /\ UNCHANGED <<pipelineVars, promotionVars, client, composed, searched, botCall>>

\* The adapter with the customers table empty or holding the customer of
\* one of the two phone numbers; no message is being handled.
InitBot ==
  /\ InitPipeline
  /\ \A c \in Customers : RowsOf(conversationsTable, c) # {}
  /\ eligibility = None
  /\ promotionsTable = {}
  /\ customersTable \in
       {{}, {[customer_id |-> <<"CUST-WA-", -1>>, phone |-> "+15550002",
              whatsapp_phone |-> "+15550002"]}}
  /\ nextApply = 1
  /\ applyCall = [a \in ApplySlots |-> IdleCall]
  /\ NoChannelActivity
\* Messages of two phone numbers, handled concurrently.
NextBot ==
  \/ \E b \in BotSlots, from \in {"+15550001", "+15550002"} :
       HandleIncomingMessage(b, from)
  \/ \E b \in BotSlots, ok \in BOOLEAN : CustomerSelectReturns(b, ok)
  \/ \E b \in BotSlots, ok \in BOOLEAN : CustomerInsertReturns(b, ok)
  \/ \E b \in BotSlots : BotReturn(b)
  \/ ClockTick
SpecBot == InitBot /\ [][NextBot]_vars

\* ========================================================== routes/ai-agent
\* (src/src/routes/customers.js, the router mounted at /api/v1/ai-agent)
\* No processMessage call is suspended at an await.
NoTurnInFlight == \A p \in Procs : pc[p] \in {"idle", "done"}

\* DELETE /conversation/:customerId.  The handler calls
\* AIAgentService.clearConversationContext, which the class does not define:
\* the call throws a TypeError inside the try, and the catch answers 500.
\* Nothing is read or written.  The client sends it while no turn is in flight.
DeleteConversation(c) ==
  /\ client.pc = "idle"
  /\ NoTurnInFlight
  /\ client' = [pc |-> "deleted", customerId |-> c,
                deleted |-> [status |-> 500,
                             body |-> [error |-> <<"Failed to clear conversation history">>]]]
  /\ UNCHANGED <<pipelineVars, promotionVars, composed, searched, botCall, dateNow>>

\* GET /conversation/:customerId, sent by the client first or after its
\* DELETE was answered.  getConversationContext returns the cached object,
\* or loads the row and caches it (ok), or returns an empty context when the
\* SELECT fails; the handler answers 200 with that context's fields.
GetConversation(c, ok) ==
  /\ client.pc \in {"idle", "deleted"}
  /\ client.pc = "deleted" => c = client.customerId
  /\ NoTurnInFlight
  /\ LET cached == c \in DOMAIN conversations
         context == IF cached THEN conversations[c]
                    ELSE IF ok THEN LoadedContext(c, RowsOf(conversationsTable, c))
                    ELSE ErrorContext(c)
     IN /\ client' =
             [x \in DOMAIN client \cup {"customerId", "got"} |->
                CASE x = "pc" -> "got"
                  [] x = "customerId" -> c
                  [] x = "got" ->
                       [status |-> 200,
                        body |-> [success |-> TRUE,
                                  data |-> [customerId |-> c,
                                            messages |-> context.recent_messages,
                                            lastIntent |-> GetField(context, "last_intent"),
                                            lastUpdated |-> GetField(context, "last_updated")]]]
                  [] OTHER -> client[x]]
        /\ IF ~cached /\ ok
             THEN /\ conversations' = MapSet(conversations, c, context)
                  /\ touched' = [touched EXCEPT ![c] = now]
             ELSE UNCHANGED <<conversations, touched>>
        /\ removed' = IF cached THEN removed ELSE [removed EXCEPT ![c] = None]
  /\ UNCHANGED <<conversationsTable, conversationLogs, timerStarted, now, nextTurn,
                 locals, appended, promotionVars, composed, searched, botCall, dateNow>>

\* Turns of one customer, one at a time; then a client of the routes, which
\* sends its requests when no turn is in flight and no message arrives any
\* more.
NextRoutes ==
  \/ client.pc = "idle" /\
       Requests({"p1"}, Active, StoreReplies, {TRUE}, {"web"}, MaxSeqTurns)
  \/ \E c \in Customers : DeleteConversation(c)
  \/ \E c \in Customers, ok \in BOOLEAN : GetConversation(c, ok)
SpecRoutes == InitActive /\ [][NextRoutes]_vars

\* =================================================================== claims
IsSuffix(h, s) ==
  Len(h) <= Len(s) /\ h = SubSeq(s, Len(s) - Len(h) + 1, Len(s))
RECURSIVE IsSubsequence(_, _)
IsSubsequence(h, s) ==
  IF h = <<>> THEN TRUE
  ELSE IF s = <<>> THEN FALSE
  ELSE IF Head(h) = Head(s) THEN IsSubsequence(Tail(h), Tail(s))
  ELSE IsSubsequence(h, Tail(s))
\* h is made of whole turns: a user message followed by its reply.
WholeTurns(h) ==
  /\ Len(h) % 2 = 0
  /\ \A i \in 1 .. Len(h) :
       i % 2 = 1 => /\ h[i].role = "user" /\ h[i + 1].role = "assistant"
                    /\ h[i].content[2] = h[i + 1].content[2]
\* The histories stored for c: the cached one and the persisted ones.
StoredHistories(c) ==
  (IF c \in DOMAIN conversations THEN {conversations[c].recent_messages} ELSE {})
    \cup {JSONBParse(r.recent_messages) : r \in RowsOf(conversationsTable, c)}
\* Whether h holds a message of call n.
Mentions(h, n) == \E i \in 1 .. Len(h) : h[i].content[2] = n
\* Nothing of the call of p is in the cache, in the tables or in the log.
LeftNothing(p) ==
  /\ \A h \in StoredHistories(cust[p]) : ~Mentions(h, turn[p])
  /\ \A i \in 1 .. Len(conversationLogs) :
       conversationLogs[i].user_message # UserText(turn[p])

\* C1 as stated, for the cached history (the persisted one is written
\* later and follows it): whatever the interleaving, the history stored for
\* a customer has at most 10 messages and is a suffix of the sequence of all
\* messages appended for that customer.
C1_SuffixInAnyInterleaving ==
  \A c \in DOMAIN conversations :
    /\ Len(conversations[c].recent_messages) <= HistoryLimit
    /\ IsSuffix(conversations[c].recent_messages, appended[c])

\* C1 amended: whatever the interleaving, every stored history of a customer
\* has at most 10 messages, consists of whole turns and keeps them in the
\* order they were appended (it is a subsequence of all messages appended
\* for the customer), and the history an appendTurn stores ends with the
\* turn it appended.
C1_BoundedInOrder ==
  /\ \A c \in Customers : \A h \in StoredHistories(c) :
       Len(h) <= HistoryLimit /\ WholeTurns(h) /\ IsSubsequence(h, appended[c])
  /\ \A p \in Procs : pc[p] = "saving" =>
       LET h == JSONBParse(saveArgs[p].recent_messages)
       IN Len(h) <= HistoryLimit /\ IsSuffix(TurnPair(turn[p]), h)
\* The oldest turn has been dropped from a full cached history.
C1_Witness ==
  \E c \in DOMAIN conversations :
    /\ Len(conversations[c].recent_messages) = HistoryLimit
    /\ Len(appended[c]) > HistoryLimit
    /\ IsSuffix(conversations[c].recent_messages, appended[c])

\* C2: when the reply-generation call throws, processMessage returns the
\* fixed apology with the error message, and neither
\* updateConversationContext nor logConversation has been called.
C2_ReplyFailureSkipsPersistence ==
  \A p \in Procs : (pc[p] = "done" /\ trace[p].generation = "threw") =>
    /\ result[p] = [promise |-> "resolved", response |-> Apology,
                    error |-> "Failed to generate response"]
    /\ trace[p].calls = <<>>
    /\ LeftNothing(p)
C2_Witness ==
  \E p \in Procs : pc[p] = "done" /\ trace[p].generation = "threw"
                   /\ cust[p] \in DOMAIN conversations

\* C3: whenever processMessage returns the apology result, no message of
\* that call is in the cached or persisted history and no log row was
\* written for it.
C3_ApologyLeavesNothing ==
  \A p \in Procs : (pc[p] = "done" /\ result[p].response = Apology) => LeftNothing(p)

\* C4: when the classification call fails or its content cannot be parsed,
\* analyzeMessage returns exactly {intent: general_inquiry, confidence: 0.5,
\* entities: {}, sentiment: neutral, urgency: low}.
C4_FallbackAnalysis ==
  \A p \in Procs : trace[p].classification \in {"failed", "unparseable"} =>
    messageAnalysis[p] =
      [intent |-> "general_inquiry", confidence |-> FallbackConfidence,
       entities |-> EmptyObject, sentiment |-> "neutral", urgency |-> "low"]

\* C5: every analysis analyzeMessage produces has a listed intent and a
\* confidence in [0, 1].
C5_AnalysisInRange ==
  \A p \in Procs : messageAnalysis[p] # None =>
    /\ messageAnalysis[p] # NullValue
    /\ GetField(messageAnalysis[p], "intent") \in ValidIntents
    /\ messageAnalysis[p].confidence \in 0 .. ConfidenceOne

\* C6: whatever succeeds or fails, processMessage resolves, with the
\* generated reply or with the fixed apology as its response.
C6_ReplyOrApology ==
  \A p \in Procs : pc[p] = "done" =>
    /\ result[p].promise = "resolved"
    /\ result[p].response \in {ReplyText(turn[p]), Apology}
\* The reply is returned although the load, the save and the log insert failed.
C6_Witness ==
  \E p \in Procs :
    /\ pc[p] = "done" /\ result[p].response = ReplyText(turn[p])
    /\ trace[p].loadFailed /\ trace[p].save = "failed" /\ trace[p].log = "failed"
    /\ \E i \in 1 .. Len(actionResults[p]) : actionResults[p][i].type = "error"

\* C7: once reply generation has succeeded, processMessage calls
\* updateConversationContext and then logConversation, once each, and
\* returns the generated reply.
C7_PersistThenReply ==
  \A p \in Procs : (pc[p] = "done" /\ trace[p].generation = "ok") =>
    /\ trace[p].calls = <<"updateConversationContext", "logConversation">>
    /\ result[p].response = ReplyText(turn[p])

\* C8: getConversationContext always returns a context: the cached one,
\* without a query, when the customer is in the cache; otherwise the
\* persisted row when there is one, or else a context with an empty history;
\* and a context with an empty history when the query fails.
C8_GetContext ==
  [][\A p \in Procs :
       /\ (pc[p] = "idle" /\ pc'[p] # "idle") =>
            IF cust'[p] \in DOMAIN conversations
              THEN pc'[p] = "respond" /\ conversation'[p] = conversations[cust'[p]]
              ELSE pc'[p] = "loading"
       /\ (pc[p] = "loading" /\ pc'[p] # "loading") =>
            /\ pc'[p] = "respond"
            /\ LET rows == RowsOf(conversationsTable, cust[p])
               IN IF trace'[p].loadFailed \/ rows = {}
                    THEN conversation'[p].recent_messages = <<>>
                    ELSE \E r \in rows :
                           conversation'[p].recent_messages = JSONBParse(r.recent_messages)
     ]_vars
\* A context came from a persisted row.
C8_Witness ==
  \E p \in Procs :
    /\ pc[p] = "respond" /\ ~trace[p].cacheHit /\ ~trace[p].loadFailed
    /\ conversation[p].recent_messages # <<>>

\* C9: when the upsert of an appendTurn succeeds and no other request of the
\* customer ran during that appendTurn, the table then holds exactly one row
\* for the customer, with the cached history.
C9_OneRowEqualToCache ==
  [][\A p \in Procs :
       (pc[p] = "saving" /\ pc'[p] = "logging" /\ trace'[p].save = "ok"
          /\ ~trace'[p].overlapped) =>
         LET rows == RowsOf(conversationsTable', cust[p])
         IN /\ Cardinality(rows) = 1
            /\ cust[p] \in DOMAIN conversations'
            /\ \A r \in rows :
                 JSONBParse(r.recent_messages) = conversations'[cust[p]].recent_messages
     ]_vars
\* An existing row has been overwritten with a full history.
C9_Witness ==
  \E p \in Procs :
    /\ pc[p] = "logging" /\ trace[p].save = "ok" /\ ~trace[p].overlapped
    /\ \E r \in RowsOf(conversationsTable, cust[p]) :
         /\ Len(JSONBParse(r.recent_messages)) = HistoryLimit
         /\ Mentions(JSONBParse(r.recent_messages), turn[p])

\* C10: the sweep changes no row, and the first context loaded after the
\* sweep removed a persisted entry has the history and the last intent the
\* entry had.
C10_ReloadEqualsRemoved ==
  [][/\ (now' # now => conversationsTable' = conversationsTable)
     /\ \A p \in Procs :
          (pc[p] = "loading" /\ pc'[p] = "respond" /\ ~trace'[p].loadFailed
             /\ removed[cust[p]] # None /\ removed[cust[p]].persisted) =>
            /\ conversation'[p].recent_messages = removed[cust[p]].recent_messages
            /\ GetField(conversation'[p], "last_intent") = removed[cust[p]].last_intent
    ]_vars

\* C11: while the cleanup timer runs, each 15-minute sweep leaves no cache
\* entry of an inactive customer (none of whose requests is running) that
\* was created or last changed more than 1 hour before, however the entry
\* was created.
C11_SweepRemovesIdle ==
  [][(timerStarted /\ now' # now) =>
       \A c \in DOMAIN conversations' :
         (~\E q \in Procs : InFlight(q) /\ cust[q] = c) =>
           touched'[c] >= now' - MaxIdleMinutes
    ]_vars

\* The tags a customer_segments value declares.
DeclaredTags(segments) ==
  IF segments = NullValue THEN {}
  ELSE {segments.text[i] : i \in 1 .. Len(segments.text)} \ {","}
\* Whether the customer has lived `years` years: that birthday is today or past.
HasLived(birthDate, years) ==
  /\ birthDate # NullValue
  /\ LET y == birthDate.year + years
     IN \/ y < Today.year
        \/ y = Today.year /\ birthDate.month < Today.month
        \/ y = Today.year /\ birthDate.month = Today.month /\ birthDate.day <= Today.day
\* The rule of a tag, as the claim states it.
TagRuleHolds(tag, customer) ==
  CASE tag = "seniors" -> HasLived(customer.date_of_birth, SeniorAge)
    [] tag = "new_customers" ->
         NowHour - customer.registration_date < NewCustomerDays * HoursPerDay
    [] tag = "loyalty_members" -> customer.loyalty_points > LoyaltyPoints
    [] tag = "diabetic_customers" ->
         /\ customer.medical_conditions # NullValue
         /\ \E i \in 1 .. Len(customer.medical_conditions.text) :
              customer.medical_conditions.text[i] \in {"diabetes", "Diabetes", "DIABETES"}
    [] tag = "regular_customers" -> customer.prescription_count > RegularPrescriptions
    [] OTHER -> FALSE
SegmentsUnsetOrAll(segments) ==
  segments \in {NullValue, Text(<<>>), Text(<<"all">>)}

C13_ProductCheck ==
  eligibility # None =>
    LET promotion == eligibility.promotion
        products == eligibility.products
    IN /\ ( /\ Truthy(promotion.applicable_products) \/ Truthy(promotion.applicable_categories)
            /\ products # <<>>
            /\ eligibility.result = TRUE )
          => \E i \in 1 .. Len(products) :
               \/ products[i].product_id \in DeclaredTags(promotion.applicable_products)
               \/ products[i].category \in DeclaredTags(promotion.applicable_categories)
       /\ products = <<>> => eligibility.result = (eligibility.segments # "return false")

\* The discount the claim gives for a promotion row and an order total, in
\* hundredths: the percentage of the total when a percentage is configured,
\* else the fixed amount (else nothing), reduced to the cap when the cap is
\* set and smaller.
StatedDiscount(promotion, orderTotal) ==
  LET amount ==
        IF promotion.discount_percentage # NullValue
          THEN (orderTotal * promotion.discount_percentage.numeric) \div (100 * 100)
        ELSE IF promotion.discount_amount # NullValue
          THEN promotion.discount_amount.numeric
        ELSE 0
  IN IF promotion.max_discount_amount # NullValue
          /\ promotion.max_discount_amount.numeric < amount
       THEN promotion.max_discount_amount.numeric ELSE amount
\* A call of applyPromotion that has returned success.
Succeeded(a) == applyCall[a].pc = "done" /\ applyCall[a].result.success

\* C14: every successful applyPromotion returns as discountAmount the
\* percentage of the order total when a percentage is configured, else the
\* fixed amount, reduced to max_discount_amount when that is set and
\* smaller, and as finalTotal the order total less that discount; 10% of 50
\* without cap gives 5 and 45.
C14_DiscountAmounts ==
  \A a \in ApplySlots : Succeeded(a) =>
    LET call == applyCall[a]
        stated == StatedDiscount(call.promotion, call.orderTotal)
    IN /\ ToNumber(call.result.discountAmount) = stated
       /\ ToNumber(call.result.finalTotal) = call.orderTotal - stated
       /\ ( /\ call.promotion.discount_percentage = Numeric(1000)
            /\ call.promotion.max_discount_amount = NullValue
            /\ call.orderTotal = 5000 )
          => /\ ToNumber(call.result.discountAmount) = 500
             /\ ToNumber(call.result.finalTotal) = 4500

\* A finished call whose order total is below the min_purchase_amount of
\* the promotion row it names.
FinishedBelowMinimum(a) ==
  /\ applyCall[a].pc = "done"
  /\ \E r \in promotionsTable :
       /\ r.promotion_id = applyCall[a].promotionId
       /\ r.min_purchase_amount # NullValue
       /\ applyCall[a].orderTotal < r.min_purchase_amount.numeric
\* The row of the customer the call names exists and is eligible for the
\* promotion row the call names.
EligibleCustomer(a) ==
  \E c \in customersTable, r \in promotionsTable :
    /\ c.customer_id = applyCall[a].customerId
    /\ r.promotion_id = applyCall[a].promotionId
    /\ checkCustomerEligibility(c, r, applyCall[a].products)

\* C15 as stated (for a customer that exists and queries that succeed):
\* applyPromotion with an order total below the promotion's
\* min_purchase_amount returns success: false with the minimum-purchase
\* reason, no discount, and has not incremented current_usage.
C15_MinimumPurchaseAsStated ==
  \A a \in ApplySlots :
    ( /\ FinishedBelowMinimum(a)
      /\ \E c \in customersTable : c.customer_id = applyCall[a].customerId
      /\ applyCall[a].result # Failure(<<"Failed to apply promotion">>) )
    => /\ applyCall[a].result = Failure(MinimumPurchaseMessage(Numeric(3000)))
       /\ ~applyCall[a].incremented

\* C15 amended: applyPromotion with an order total below the promotion's
\* min_purchase_amount returns success: false without any discount and has
\* not incremented current_usage; the reason is the minimum-purchase one
\* when the customer exists and is eligible and no query failed (the
\* earlier checks report their own reasons first).
C15_MinimumPurchase ==
  \A a \in ApplySlots : FinishedBelowMinimum(a) =>
    /\ applyCall[a].result.success = FALSE
    /\ "discountAmount" \notin DOMAIN applyCall[a].result
    /\ ~applyCall[a].incremented
    /\ (EligibleCustomer(a) /\ applyCall[a].result.error # <<"Failed to apply promotion">>)
         => applyCall[a].result = Failure(MinimumPurchaseMessage(Numeric(3000)))
\* An order of 20 has been rejected by a promotion that requires 30 and
\* would otherwise have given a discount.
C15_Witness ==
  \E a \in ApplySlots :
    /\ FinishedBelowMinimum(a)
    /\ applyCall[a].orderTotal = 2000
    /\ applyCall[a].promotion # None
    /\ applyCall[a].promotion.discount_percentage = Numeric(1000)
    /\ applyCall[a].result = Failure(MinimumPurchaseMessage(Numeric(3000)))

\* The row of promotions that a call names.
PromotionOf(a) == {r \in promotionsTable : r.promotion_id = applyCall[a].promotionId}

C17_LimitWithoutOverlap ==
  /\ \A r \in promotionsTable :
       r.total_usage_limit # NullValue => r.current_usage <= r.total_usage_limit.int
  /\ \A a \in ApplySlots : Succeeded(a) => applyCall[a].promotion.status = "active"

\* C18: when the query of the intent's lookup (product search, promotions,
\* prescriptions or orders) fails, the actions of that call contain an
\* action of type error, and processMessage still returns the reply it
\* generates (the reply-generation call succeeding).
C18_LookupFailureRecorded ==
  \A p \in Procs :
    (pc[p] = "done" /\ trace[p].lookup = "failed" /\ trace[p].generation = "ok") =>
      /\ \E i \in 1 .. Len(actionResults[p]) : actionResults[p][i].type = "error"
      /\ result[p].response = ReplyText(turn[p])

\* Whether the messages of h are in the order given by rank (a function
\* from call numbers to their place).
InOrderOf(h, rank) ==
  \A i, j \in 1 .. Len(h) : rank[h[i].content[2]] < rank[h[j].content[2]] => i < j
\* The call numbers in a sequence of messages, and the place of each call
\* in the order messages were appended for a customer.
CallsIn(s) == {s[i].content[2] : i \in 1 .. Len(s)}
AppendRank(c) ==
  [n \in CallsIn(appended[c]) |->
     CHOOSE i \in 1 .. Len(appended[c]) :
       appended[c][i].content[2] = n /\ appended[c][i].role = "user"]

\* C19 as stated: in every stored history of a customer the turns are in
\* the order their processMessage calls started, whatever the interleaving.
C19_ArrivalOrder ==
  \A c \in Customers : \A h \in StoredHistories(c) :
    InOrderOf(h, [n \in CallsIn(h) |-> n])

\* C19 amended: every step that changes a stored history of a customer or
\* appends a pair leaves every stored history of the customer in the order
\* in which their updateConversationContext ran, and each
\* updateConversationContext puts its pair after everything then in the
\* cached history (when the customer has a cache entry); so a turn that has
\* been appended before another arrives precedes it, while overlapping
\* turns are stored in the order their replies were generated.
C19_AppendOrder ==
  [][\A c \in Customers :
       \/ UNCHANGED <<appended, conversations, conversationsTable>>
       \/ /\ \A rank \in {AppendRank(c)'} :
               \A h \in StoredHistories(c)' : InOrderOf(h, rank)
          /\ (appended'[c] # appended[c] /\ c \in DOMAIN conversations') =>
               IsSuffix(SubSeq(appended'[c], Len(appended[c]) + 1, Len(appended'[c])),
                        conversations'[c].recent_messages)
    ]_vars
\* Two overlapping turns are stored with the later arrival first.
C19_Witness ==
  \E c \in Customers : \E h \in StoredHistories(c) :
    \E i, j \in 1 .. Len(h) : i < j /\ h[i].content[2] = 2 /\ h[j].content[2] = 1

\* The log rows written for the call of p.
LogRowsOf(log, p) ==
  {i \in 1 .. Len(log) : log[i].user_message = UserText(turn[p])}

\* C20: no step changes or removes a row of conversation_logs (the log only
\* grows at its end), and when a turn returns its reply and its log insert
\* succeeded, the log has exactly one row for it, holding the turn's user
\* message, its reply text (inside the stored response), its intent and its
\* channel.
C20_OneLogRowPerTurn ==
  [][/\ Len(conversationLogs) <= Len(conversationLogs')
     /\ conversationLogs = SubSeq(conversationLogs', 1, Len(conversationLogs))
     /\ \A p \in Procs :
          ( /\ pc[p] = "logging" /\ pc'[p] = "done"
            /\ result'[p].response = ReplyText(turn[p])
            /\ trace'[p].log = "ok" )
          => /\ Cardinality(LogRowsOf(conversationLogs', p)) = 1
             /\ \A i \in LogRowsOf(conversationLogs', p) :
                  LET row == conversationLogs'[i]
                  IN /\ row.customer_id = cust[p]
                     /\ row.channel = channel[p]
                     /\ JSONBParse(row.ai_response).content = ReplyText(turn[p])
                     /\ GetField(row, "intent") = result'[p].intent
    ]_vars

\* C21: when the client's DELETE for a customer has been answered, the
\* answer is a success, and the GET for that customer that follows it (no
\* turn in between) returns an empty message list.
C21_DeleteClears ==
  "deleted" \in DOMAIN client =>
    /\ client.deleted.status = 200
    /\ GetField(client.deleted.body, "success") = TRUE
    /\ client.pc = "got" => client.got.body.data.messages = <<>>

\* The places of the actions of the given types in a list of actions.
ActionsOfType(actions, types) == {i \in 1 .. Len(actions) : actions[i].type \in types}
LookupActionTypes == {"product_search", "promotions", "prescriptions", "orders"}

\* C22: once executeActions has returned for an analysis object, its list
\* holds exactly one lookup action when the intent is product_search,
\* price_negotiation, prescription_refill or order_status, of type
\* product_search, promotions, prescriptions or orders respectively, and at
\* the head of the list; it holds no lookup action for any other intent
\* (listed, unlisted or missing); and whenever the customer lookup
\* succeeded, the list ends with its only customer_context action.
C22_ActionsPerIntent ==
  \A p \in Procs :
    (messageAnalysis[p] # None /\ messageAnalysis[p] # NullValue) =>
      LET actions == actionResults[p]
          t == IntentActionType(GetField(messageAnalysis[p], "intent"))
          lookups == ActionsOfType(actions, LookupActionTypes)
      IN /\ GetField(messageAnalysis[p], "intent")
              \notin {"product_search", "price_negotiation", "prescription_refill",
                      "order_status"} => lookups = {}
         /\ GetField(messageAnalysis[p], "intent") = "product_search" =>
              lookups = {1} /\ actions[1].type = "product_search"
         /\ GetField(messageAnalysis[p], "intent") = "price_negotiation" =>
              lookups = {1} /\ actions[1].type = "promotions"
         /\ GetField(messageAnalysis[p], "intent") = "prescription_refill" =>
              lookups = {1} /\ actions[1].type = "prescriptions"
         /\ GetField(messageAnalysis[p], "intent") = "order_status" =>
              lookups = {1} /\ actions[1].type = "orders"
         /\ trace[p].customer = "ok" =>
              ActionsOfType(actions, {"customer_context"}) = {Len(actions)}
\* executeActions has returned the orders and the customer for an
\* order_status message.
C22_Witness ==
  \E p \in Procs :
    /\ messageAnalysis[p] \notin {None, NullValue}
    /\ trace[p].customer = "ok"
    /\ GetField(messageAnalysis[p], "intent") = "order_status"
    /\ Len(actionResults[p]) = 2
    /\ actionResults[p][1].type = "orders"

\* C23: when findApplicablePromotions has returned for a customer (no query
\* failed), its filter kept a promotion exactly when
\* PromotionService.checkCustomerEligibility accepts it for that customer
\* with no candidate products, and it returned at most 5 promotions.
C23_ComposerAgreesWithEngine ==
  (composed # None /\ ~composed.threw /\ composed.customer # NullValue) =>
    LET Eligible(promo) == checkCustomerEligibility(composed.customer, promo, <<>>)
    IN /\ composed.applicablePromotions = SelectSeq(composed.activePromotions, Eligible)
       /\ Len(composed.result) <= PromotionCap

\* The number of days from the day of a TIMESTAMP to today.
DaysBefore(timestamp) == 0 - (timestamp \div HoursPerDay)

\* C24: when checkCustomerEligibility has returned for a promotion whose
\* customer_segments is new_customers, it accepted the customer if the
\* registration day is at most 30 days before today, whatever the hour of
\* the registration, and rejected the customer if it is 31 days or more
\* before.
C24_NewCustomersByDay ==
  (eligibility # None
     /\ eligibility.promotion.customer_segments = Text(<<"new_customers">>)) =>
    /\ DaysBefore(eligibility.customer.registration_date) <= NewCustomerDays
         => eligibility.result
    /\ DaysBefore(eligibility.customer.registration_date) > NewCustomerDays
         => ~eligibility.result

\* Everything the queries of a searchProducts call returned, names first,
\* then symptoms, then categories; and the identifiers in a list.
AllFound == Flatten(searched.byName) \o Flatten(searched.bySymptom)
              \o Flatten(searched.byCategory)
IdsIn(products) == {products[i].id : i \in 1 .. Len(products)}
FirstPlace(products, id) ==
  CHOOSE i \in 1 .. Len(products) :
    products[i].id = id /\ \A j \in 1 .. (i - 1) : products[j].id # id

\* C25: what searchProducts returned has at most 10 products and no two
\* with the same identifier; when no query failed, each is a product that
\* was found, they are in the order of their first occurrences among the
\* name results, then the symptom results, then the category results, and a
\* found product is missing only when 10 products that occur before it were
\* returned.
C25_UniqueCappedInOrder ==
  searched # None =>
    LET returned == searched.result
    IN /\ Len(returned) <= ProductCap
       /\ \A i, j \in 1 .. Len(returned) : returned[i].id = returned[j].id => i = j
       /\ ~searched.threw =>
            /\ \A i \in 1 .. Len(returned) :
                 returned[i] = AllFound[FirstPlace(AllFound, returned[i].id)]
            /\ \A i, j \in 1 .. Len(returned) :
                 i < j => FirstPlace(AllFound, returned[i].id)
                            < FirstPlace(AllFound, returned[j].id)
            /\ \A k \in 1 .. Len(AllFound) :
                 AllFound[k].id \notin IdsIn(returned) =>
                   /\ Len(returned) = ProductCap
                   /\ \A i \in 1 .. Len(returned) :
                        FirstPlace(AllFound, returned[i].id) < k
\* A search found a product more than once and more than 10 products, and
\* returned 10.
C25_Witness ==
  /\ searched # None
  /\ ~searched.threw
  /\ Cardinality(IdsIn(AllFound)) < Len(AllFound)
  /\ Cardinality(IdsIn(AllFound)) > ProductCap
  /\ Len(searched.result) = ProductCap

\* The rows of customers for a WhatsApp phone number.
CustomersOf(from) == {r \in customersTable : r.whatsapp_phone = from}

\* C26: whatever the interleaving, no phone number has more than one
\* customer row; a message that has been processed was processed under the
\* customer_id of the one row of its phone number; and two messages of one
\* phone number are processed under the same customer_id.
C26_OneCustomerPerIdentity ==
  /\ \A from \in {"+15550001", "+15550002"} : Cardinality(CustomersOf(from)) <= 1
  /\ \A b \in BotSlots :
       botCall[b].pc = "processed" =>
         CustomersOf(botCall[b].from) =
           {[customer_id |-> botCall[b].customerId, phone |-> botCall[b].from,
             whatsapp_phone |-> botCall[b].from]}
  /\ \A b1, b2 \in BotSlots :
       (botCall[b1].pc = "processed" /\ botCall[b2].pc = "processed"
          /\ botCall[b1].from = botCall[b2].from)
       => botCall[b1].customerId = botCall[b2].customerId

\* The persisted history of a customer: that of the customer's row, empty
\* without a row.
PersistedHistory(table, c) ==
  IF RowsOf(table, c) = {} THEN <<>>
  ELSE JSONBParse((CHOOSE r \in RowsOf(table, c) : TRUE).recent_messages)

\* C27: when the save of a turn whose context load failed succeeds, the
\* persisted history of the customer becomes the history persisted before
\* followed by the turn's two messages, cut to the last 10.
C27_LoadFailureKeepsHistory ==
  [][\A p \in Procs :
       (pc[p] = "saving" /\ pc'[p] = "logging" /\ trace'[p].save = "ok"
          /\ trace[p].loadFailed) =>
         PersistedHistory(conversationsTable', cust[p]) =
           SliceLast(PersistedHistory(conversationsTable, cust[p]) \o TurnPair(turn[p]),
                     HistoryLimit)
    ]_vars

\* Both requests have completed a turn of c, each with its context load (if
\* any) and its save succeeded.
BothCompleted(c) ==
  \A p \in Procs : /\ pc[p] = "done" /\ cust[p] = c
                    /\ ~trace[p].loadFailed /\ trace[p].save = "ok"

\* C28 as stated: when both turns of a customer have completed without
\* storage failure, whatever their interleaving, the persisted history
\* equals the cached history and holds the user/assistant pair of both turns
\* (two turns always fall within the last 10 messages).
C28_NoCompletedTurnLost ==
  \A c \in Customers :
    BothCompleted(c) =>
      /\ c \in DOMAIN conversations
      /\ PersistedHistory(conversationsTable, c) = conversations[c].recent_messages
      /\ \A p \in Procs :
           IsSubsequence(TurnPair(turn[p]), conversations[c].recent_messages)

\* C28 amended: when both turns of a customer have completed without
\* storage failure, the cached history ends with the pair that was appended
\* last and the persisted history ends with the pair of one of the two
\* turns (the one whose upsert was applied last); and when neither turn ran
\* while the other was in flight, the persisted history equals the cached
\* history and holds the pairs of both turns.
C28_TurnsKeptWithoutOverlap ==
  \A c \in Customers :
    BothCompleted(c) =>
      /\ c \in DOMAIN conversations
      /\ IsSuffix(SliceLast(appended[c], 2), conversations[c].recent_messages)
      /\ \E p \in Procs :
           IsSuffix(TurnPair(turn[p]), PersistedHistory(conversationsTable, c))
      /\ (\A p \in Procs : ~trace[p].overlapped) =>
           /\ PersistedHistory(conversationsTable, c) = conversations[c].recent_messages
           /\ \A p \in Procs :
                IsSubsequence(TurnPair(turn[p]), conversations[c].recent_messages)
\* Two turns that started on a cold cache and overlapped have completed
\* without storage failure.
C28_Witness ==
  \E c \in Customers :
    /\ BothCompleted(c)
    /\ \A p \in Procs : ~trace[p].cacheHit /\ trace[p].overlapped

\* C29: with one call at a time, when applyPromotion has returned
\* success: false for a promotion it found, the promotion's row has the
\* current_usage and the status the call read at its start.
C29_FailureLeavesPromotion ==
  \A a \in ApplySlots :
    (/\ applyCall[a].pc = "done"
     /\ ~applyCall[a].result.success
     /\ "promotion_id" \in DOMAIN applyCall[a].promotion) =>
      \A r \in PromotionOf(a) :
        /\ r.current_usage = applyCall[a].promotion.current_usage
        /\ r.status = applyCall[a].promotion.status

\* C30: every successful applyPromotion (the order totals are not negative)
\* returns a discountAmount from 0 to the order total, and a finalTotal
\* that is not negative.
C30_DiscountWithinTotal ==
  \A a \in ApplySlots :
    Succeeded(a) =>
      /\ 0 <= ToNumber(applyCall[a].result.discountAmount)
      /\ ToNumber(applyCall[a].result.discountAmount) <= applyCall[a].orderTotal
      /\ ToNumber(applyCall[a].result.finalTotal) >= 0

====
